---------------------------- MODULE Spec2Model ----------------------------
(***************************************************************************)
(* G.711 companding codec (EzG711.c): the six scalar mappings              *)
(* ALawEncode_S, ALawDecode_S, ULawEncode_S, ULawDecode_S, ALawToULaw_S,   *)
(* ULawToALaw_S and the six buffer transforms built on them.               *)
(*                                                                         *)
(* Two specifications share the variables:                                 *)
(*   Spec     a value in flight through a chain of scalar mappings         *)
(*   BufSpec  calls of the buffer transforms on caller-owned buffers       *)
(***************************************************************************)
EXTENDS Integers, Sequences, FiniteSets

VARIABLES
    kind,       \* Spec: type of the value in flight: "pcm", "alaw" or "ulaw"
    vals,       \* Spec: the input followed by the result of every mapping applied
    ops,        \* Spec: names of the scalar mappings applied so far
    fn,         \* BufSpec: the buffer transform last called ("none" before any call)
    src,        \* BufSpec: source buffer after the call
    dst,        \* BufSpec: destination buffer after the call
    srcArg,     \* BufSpec: source buffer as passed in
    dstArg,     \* BufSpec: destination buffer as passed in
    sizeArg,    \* BufSpec: srcSize as passed in
    written,    \* BufSpec: number of stores through dst made by the loop
    ret         \* BufSpec: value returned by the call

vars == <<kind, vals, ops, fn, src, dst, srcArg, dstArg, sizeArg, written, ret>>
scalarVars == <<kind, vals, ops>>
bufVars == <<fn, src, dst, srcArg, dstArg, sizeArg, written, ret>>

(***************************************************************************)
(* Bounds of the model.                                                    *)
(***************************************************************************)
\* longest chain of scalar mappings applied to one input
MaxOps == 3
\* number of elements in a source buffer
MaxElems == 3

(***************************************************************************)
(* C integer types and operators.                                          *)
(***************************************************************************)
Int16 == -32768 .. 32767
UInt8 == 0 .. 255

\* conversion of an int to int16_t (two's complement wrap)
ToInt16(v) == ((v + 32768) % 65536) - 32768
\* conversion of an unsigned to uint8_t
ToUint8(v) == v % 256
\* ~p on a two's complement int
Not(p) == -p - 1
\* p >> n and p << n on non-negative values
Shr(p, n) == p \div (2 ^ n)
Shl(p, n) == p * (2 ^ n)

RECURSIVE Xor(_, _)
\* a ^ b on non-negative values
Xor(a, b) ==
    IF a = 0 THEN b
    ELSE IF b = 0 THEN a
    ELSE ((a + b) % 2) + 2 * Xor(a \div 2, b \div 2)

RECURSIVE And(_, _)
\* a & b on non-negative values
And(a, b) ==
    IF a = 0 \/ b = 0 THEN 0
    ELSE ((a % 2) * (b % 2)) + 2 * And(a \div 2, b \div 2)

\* a | b on non-negative values
Or(a, b) == a + b - And(a, b)

(***************************************************************************)
(* Scalar mappings.                                                        *)
(***************************************************************************)
\* mutant: two's complement negation instead of ones' complement
ALawEncode_S_neg(pcm16) ==
    LET neg == pcm16 < 0
        p1 == IF neg THEN -pcm16 ELSE pcm16
        a0 == IF neg THEN \h00 ELSE \h80
        p2 == Shr(p1, 4)
        big == p2 >= \h20
        c1 == big /\ p2 >= \h100
        p3 == IF c1 THEN Shr(p2, 4) ELSE p2
        a1 == IF c1 THEN a0 + \h40 ELSE a0
        c2 == big /\ p3 >= \h40
        p4 == IF c2 THEN Shr(p3, 2) ELSE p3
        a2 == IF c2 THEN a1 + \h20 ELSE a1
        c3 == big /\ p4 >= \h20
        p5 == IF c3 THEN Shr(p4, 1) ELSE p4
        a3 == IF c3 THEN a2 + \h10 ELSE a2
    IN  ToUint8(Xor(a3 + p5, \h55))

\* mutant: the first segment test compares with 0x80 instead of 0x100
ALawEncode_S_seg(pcm16) ==
    LET neg == pcm16 < 0
        p1 == IF neg THEN Not(pcm16) ELSE pcm16
        a0 == IF neg THEN \h00 ELSE \h80
        p2 == Shr(p1, 4)
        big == p2 >= \h20
        c1 == big /\ p2 >= \h80
        p3 == IF c1 THEN Shr(p2, 4) ELSE p2
        a1 == IF c1 THEN a0 + \h40 ELSE a0
        c2 == big /\ p3 >= \h40
        p4 == IF c2 THEN Shr(p3, 2) ELSE p3
        a2 == IF c2 THEN a1 + \h20 ELSE a1
        c3 == big /\ p4 >= \h20
        p5 == IF c3 THEN Shr(p4, 1) ELSE p4
        a3 == IF c3 THEN a2 + \h10 ELSE a2
    IN  ToUint8(Xor(a3 + p5, \h55))

ALawEncode_S(pcm16) ==
    LET neg == pcm16 < 0
        \* p = ~p; a = 0x00   /   a = 0x80
        p1 == IF neg THEN Not(pcm16) ELSE pcm16
        a0 == IF neg THEN \h00 ELSE \h80
        \* p >>= 4
        p2 == Shr(p1, 4)
        \* if (p >= 0x20) { three nested segment tests }
        big == p2 >= \h20
        c1 == big /\ p2 >= \h100
        p3 == IF c1 THEN Shr(p2, 4) ELSE p2
        a1 == IF c1 THEN a0 + \h40 ELSE a0
        c2 == big /\ p3 >= \h40
        p4 == IF c2 THEN Shr(p3, 2) ELSE p3
        a2 == IF c2 THEN a1 + \h20 ELSE a1
        c3 == big /\ p4 >= \h20
        p5 == IF c3 THEN Shr(p4, 1) ELSE p4
        a3 == IF c3 THEN a2 + \h10 ELSE a2
        \* a += p; return a ^ 0x55 (as uint8_t)
    IN  ToUint8(Xor(a3 + p5, \h55))

\* mutant: the 'half' bit 0x08 is not added
ALawDecode_S_nohalf(alaw) ==
    LET a1 == Xor(alaw, \h55)
        sign == And(a1, \h80)
        l1 == Shl(And(a1, \h1f), 4)
        a2 == And(a1, \h7f)
        l2 == IF a2 >= \h20 THEN Shl(Or(l1, \h100), Shr(a2, 4) - 1) ELSE l1
    IN  IF sign = 0 THEN -l2 ELSE l2

ALawDecode_S(alaw) ==
    LET \* alaw ^= 0x55; sign = alaw & 0x80
        a1 == Xor(alaw, \h55)
        sign == And(a1, \h80)
        \* linear = alaw & 0x1f; linear <<= 4; linear += 8
        l1 == Shl(And(a1, \h1f), 4) + 8
        \* alaw &= 0x7f
        a2 == And(a1, \h7f)
        \* if (alaw >= 0x20) { linear |= 0x100; linear <<= (alaw >> 4) - 1 }
        l2 == IF a2 >= \h20 THEN Shl(Or(l1, \h100), Shr(a2, 4) - 1) ELSE l1
    IN  IF sign = 0 THEN -l2 ELSE l2

\* mutant: the biased magnitude is not clipped to 0x7f00
ULawEncode_S_noclip(pcm16) ==
    LET neg == pcm16 < 0
        p1 == IF neg THEN Not(pcm16) ELSE pcm16
        u0 == IF neg THEN Xor(Xor(\h80, \h10), \hff) ELSE Xor(Xor(\h00, \h10), \hff)
        p2 == p1 + \h84
        p4 == Shr(p2, 3)
        c1 == p4 >= \h100
        p5 == IF c1 THEN Shr(p4, 4) ELSE p4
        u1 == IF c1 THEN Xor(u0, \h40) ELSE u0
        c2 == p5 >= \h40
        p6 == IF c2 THEN Shr(p5, 2) ELSE p5
        u2 == IF c2 THEN Xor(u1, \h20) ELSE u1
        c3 == p6 >= \h20
        p7 == IF c3 THEN Shr(p6, 1) ELSE p6
        u3 == IF c3 THEN Xor(u2, \h10) ELSE u2
    IN  ToUint8(Xor(u3, p7))

ULawEncode_S(pcm16) ==
    LET neg == pcm16 < 0
        \* p = ~p; u = 0x80^0x10^0xff   /   u = 0x00^0x10^0xff
        p1 == IF neg THEN Not(pcm16) ELSE pcm16
        u0 == IF neg THEN Xor(Xor(\h80, \h10), \hff) ELSE Xor(Xor(\h00, \h10), \hff)
        \* p += 0x84
        p2 == p1 + \h84
        \* if (p > 0x7f00) p = 0x7f00
        p3 == IF p2 > \h7f00 THEN \h7f00 ELSE p2
        \* p >>= 3
        p4 == Shr(p3, 3)
        \* the three segment tests
        c1 == p4 >= \h100
        p5 == IF c1 THEN Shr(p4, 4) ELSE p4
        u1 == IF c1 THEN Xor(u0, \h40) ELSE u0
        c2 == p5 >= \h40
        p6 == IF c2 THEN Shr(p5, 2) ELSE p5
        u2 == IF c2 THEN Xor(u1, \h20) ELSE u1
        c3 == p6 >= \h20
        p7 == IF c3 THEN Shr(p6, 1) ELSE p6
        u3 == IF c3 THEN Xor(u2, \h10) ELSE u2
        \* u ^= p; return u (as uint8_t)
    IN  ToUint8(Xor(u3, p7))

\* mutant: the bias 0x84 is not subtracted
ULawDecode_S_nobias(ulaw) ==
    LET u1 == Xor(ulaw, \hff)
        l1 == Or(Shl(And(u1, \h0f), 3), \h84)
        shift == And(Shr(u1, 4), 7)
        l2 == Shl(l1, shift)
    IN  IF And(u1, \h80) /= 0 THEN -l2 ELSE l2

ULawDecode_S(ulaw) ==
    LET \* ulaw ^= 0xff
        u1 == Xor(ulaw, \hff)
        \* linear = ulaw & 0x0f; linear <<= 3; linear |= 0x84
        l1 == Or(Shl(And(u1, \h0f), 3), \h84)
        \* shift = ulaw >> 4; shift &= 7; linear <<= shift
        shift == And(Shr(u1, 4), 7)
        l2 == Shl(l1, shift)
        \* linear -= 0x84
        l3 == l2 - \h84
    IN  IF And(u1, \h80) /= 0 THEN -l3 ELSE l3

\* mutant: the band 8..23 is corrected by 4 instead of 8
ALawToULaw_S_band(alaw) ==
    LET sign == And(alaw, \h80)
        a == Xor(Xor(alaw, sign), \h55)
        ulaw ==
            IF a < 45
            THEN IF a < 24
                 THEN (IF a < 8 THEN Shl(a, 1) + 1 ELSE a + 4)
                 ELSE (IF a < 32 THEN Shr(a, 1) + 20 ELSE a + 4)
            ELSE IF a < 63
                 THEN (IF a < 47 THEN a + 3 ELSE a + 2)
                 ELSE (IF a < 79 THEN a + 1 ELSE a)
    IN  ToUint8(Xor(Xor(ulaw, sign), \h7f))

ALawToULaw_S(alaw) ==
    LET \* sign = alaw & 0x80; alaw ^= sign; alaw ^= 0x55
        sign == And(alaw, \h80)
        a == Xor(Xor(alaw, sign), \h55)
        ulaw ==
            IF a < 45
            THEN IF a < 24
                 THEN (IF a < 8 THEN Shl(a, 1) + 1 ELSE a + 8)
                 ELSE (IF a < 32 THEN Shr(a, 1) + 20 ELSE a + 4)
            ELSE IF a < 63
                 THEN (IF a < 47 THEN a + 3 ELSE a + 2)
                 ELSE (IF a < 79 THEN a + 1 ELSE a)
        \* ulaw ^= sign; return ulaw ^ 0x7f (as uint8_t)
    IN  ToUint8(Xor(Xor(ulaw, sign), \h7f))

\* mutant: the band 16..32 is corrected by 4 instead of 8
ULawToALaw_S_band(ulaw) ==
    LET sign == And(ulaw, \h80)
        u == Xor(Xor(ulaw, sign), \h7f)
        alaw ==
            IF u < 48
            THEN IF u <= 32
                 THEN (IF u <= 15 THEN Shr(u, 1) ELSE u - 4)
                 ELSE (IF u <= 35 THEN Shl(u, 1) - 40 ELSE u - 4)
            ELSE IF u <= 63
                 THEN (IF u = 48 THEN u - 3 ELSE u - 2)
                 ELSE (IF u <= 79 THEN u - 1 ELSE u)
    IN  ToUint8(Xor(Xor(alaw, sign), \h55))

ULawToALaw_S(ulaw) ==
    LET \* sign = ulaw & 0x80; ulaw ^= sign; ulaw ^= 0x7f
        sign == And(ulaw, \h80)
        u == Xor(Xor(ulaw, sign), \h7f)
        alaw ==
            IF u < 48
            THEN IF u <= 32
                 THEN (IF u <= 15 THEN Shr(u, 1) ELSE u - 8)
                 ELSE (IF u <= 35 THEN Shl(u, 1) - 40 ELSE u - 4)
            ELSE IF u <= 63
                 THEN (IF u = 48 THEN u - 3 ELSE u - 2)
                 ELSE (IF u <= 79 THEN u - 1 ELSE u)
        \* alaw ^= sign; return alaw ^ 0x55 (as uint8_t)
    IN  ToUint8(Xor(Xor(alaw, sign), \h55))

(***************************************************************************)
(* Spec: a value in flight through a chain of scalar mappings.             *)
(***************************************************************************)
Cur == vals[Len(vals)]

\* the domain of each kind of value
Domain(k) == IF k = "pcm" THEN Int16 ELSE UInt8

IdleBuf ==
    /\ fn = "none"
    /\ src = << >>
    /\ dst = << >>
    /\ srcArg = << >>
    /\ dstArg = << >>
    /\ sizeArg = 0
    /\ written = 0
    /\ ret = 0

Init ==
    /\ kind \in {"pcm", "alaw", "ulaw"}
    /\ \E v \in Domain(kind) : vals = <<v>>
    /\ ops = << >>
    /\ IdleBuf

\* one scalar call: `from` is the kind consumed, `to` the kind produced
Apply(name, from, to, result) ==
    /\ kind = from
    /\ kind' = to
    /\ vals' = Append(vals, result)
    /\ ops' = Append(ops, name)
    /\ UNCHANGED bufVars

\* the argument is converted to the parameter type int16_t
CallALawEncode_S ==
    /\ Len(ops) < MaxOps
    /\ Apply("ALawEncode_S", "pcm", "alaw", ALawEncode_S(ToInt16(Cur)))
CallALawDecode_S ==
    /\ Len(ops) < MaxOps
    /\ Apply("ALawDecode_S", "alaw", "pcm", ALawDecode_S(Cur))
CallULawEncode_S ==
    /\ Len(ops) < MaxOps
    /\ Apply("ULawEncode_S", "pcm", "ulaw", ULawEncode_S(ToInt16(Cur)))
CallULawDecode_S ==
    /\ Len(ops) < MaxOps
    /\ Apply("ULawDecode_S", "ulaw", "pcm", ULawDecode_S(Cur))
CallALawToULaw_S ==
    /\ Len(ops) < MaxOps
    /\ Apply("ALawToULaw_S", "alaw", "ulaw", ALawToULaw_S(Cur))
CallULawToALaw_S ==
    /\ Len(ops) < MaxOps
    /\ Apply("ULawToALaw_S", "ulaw", "alaw", ULawToALaw_S(Cur))

Next ==
    \/ CallALawEncode_S
    \/ CallALawDecode_S
    \/ CallULawEncode_S
    \/ CallULawDecode_S
    \/ CallALawToULaw_S
    \/ CallULawToALaw_S

Spec == Init /\ [][Next]_vars

(***************************************************************************)
(* BufSpec: the buffer transforms.  A buffer is a sequence of elements     *)
(* (16 bit samples or bytes); the caller owns both buffers, which do not   *)
(* overlap, and the destination has room for the output.                   *)
(***************************************************************************)
PcmSamples == {-32768, -1, 0, 1000, 32767}
ByteSamples == {\h00, \h55, \h7f, \hd5, \hff}
PcmFill == {0, -21846}
ByteFill == {\h00, \haa}

\* source buffers of MaxElems elements, destinations of one element more
PcmSrc == [1 .. MaxElems -> PcmSamples]
ByteSrc == [1 .. MaxElems -> ByteSamples]
PcmDst == {[i \in 1 .. MaxElems + 1 |-> f] : f \in PcmFill}
ByteDst == {[i \in 1 .. MaxElems + 1 |-> f] : f \in ByteFill}

\* the value stored by `*dst++ = f(*src++)`; a decoder's int is converted
\* to the int16_t element
Scalar(f, v) ==
    CASE f = "ALawEncode_S" -> ALawEncode_S(v)
      [] f = "ALawDecode_S" -> ToInt16(ALawDecode_S(v))
      [] f = "ULawEncode_S" -> ULawEncode_S(v)
      [] f = "ULawDecode_S" -> ToInt16(ULawDecode_S(v))
      [] f = "ALawToULaw_S" -> ALawToULaw_S(v)
      [] f = "ULawToALaw_S" -> ULawToALaw_S(v)

RECURSIVE Loop(_, _, _, _, _)
\* while (dst < end) *dst++ = f(*src++);  i elements have been stored
Loop(f, d, s, i, end) ==
    IF i < end
    THEN Loop(f, [d EXCEPT ![i + 1] = Scalar(f, s[i + 1])], s, i + 1, end)
    ELSE [buf |-> d, stores |-> i]

\* the body of a buffer transform: `count` is end - dst, `result` the value
\* returned (a size_t converted to unsigned: the sizes of the model are far
\* below 2^32, so the conversion changes nothing).  The first two conjuncts
\* are the caller's obligation: count elements readable, room for count
\* elements
Call(name, f, d, s, n, count, result) ==
    /\ count <= Len(s)
    /\ count <= Len(d)
    /\ LET run == Loop(f, d, s, 0, count)
       IN  /\ dst' = run.buf
           /\ written' = run.stores
    /\ fn' = name
    /\ src' = s
    /\ srcArg' = s
    /\ dstArg' = d
    /\ sizeArg' = n
    /\ ret' = result
    /\ UNCHANGED scalarVars

\* a transform keeps no state between calls: every behaviour holds one call,
\* made on buffers the caller has just set up
Fresh == fn = "none"

\* mutant: srcSize is returned as it is
ALawDecode_ret(d, s, n) ==
    Call("ALawDecode", "ALawDecode_S", d, s, n, n, n)

\* mutant: the wrapper calls the conversion of the other direction
ALawToULaw_swapped(d, s, n) ==
    Call("ALawToULaw", "ULawToALaw_S", d, s, n, n, n)

\* srcSize >>= 1; end = dst + srcSize; ...; return srcSize
ALawEncode(d, s, n) ==
    Call("ALawEncode", "ALawEncode_S", d, s, n, Shr(n, 1), Shr(n, 1))
\* end = dst + srcSize; ...; return srcSize << 1
ALawDecode(d, s, n) ==
    Call("ALawDecode", "ALawDecode_S", d, s, n, n, Shl(n, 1))
ULawEncode(d, s, n) ==
    Call("ULawEncode", "ULawEncode_S", d, s, n, Shr(n, 1), Shr(n, 1))
ULawDecode(d, s, n) ==
    Call("ULawDecode", "ULawDecode_S", d, s, n, n, Shl(n, 1))
\* end = dst + srcSize; ...; return srcSize
ALawToULaw(d, s, n) ==
    Call("ALawToULaw", "ALawToULaw_S", d, s, n, n, n)
ULawToALaw(d, s, n) ==
    Call("ULawToALaw", "ULawToALaw_S", d, s, n, n, n)

BufInit ==
    /\ kind = "pcm"
    /\ vals = <<0>>
    /\ ops = << >>
    /\ IdleBuf

BufNext ==
    \/ Fresh /\ \E n \in 0 .. 2 * MaxElems + 1, s \in PcmSrc, d \in ByteDst : ALawEncode(d, s, n)
    \/ Fresh /\ \E n \in 0 .. MaxElems, s \in ByteSrc, d \in PcmDst : ALawDecode(d, s, n)
    \/ Fresh /\ \E n \in 0 .. 2 * MaxElems + 1, s \in PcmSrc, d \in ByteDst : ULawEncode(d, s, n)
    \/ Fresh /\ \E n \in 0 .. MaxElems, s \in ByteSrc, d \in PcmDst : ULawDecode(d, s, n)
    \/ Fresh /\ \E n \in 0 .. MaxElems, s \in ByteSrc, d \in ByteDst : ALawToULaw(d, s, n)
    \/ Fresh /\ \E n \in 0 .. MaxElems, s \in ByteSrc, d \in ByteDst : ULawToALaw(d, s, n)

BufSpec == BufInit /\ [][BufNext]_vars

(***************************************************************************)
(* Properties.  vals[1] is the input of a chain, vals[k + 1] the result of *)
(* its k-th mapping.                                                       *)
(***************************************************************************)
\* the mappings applied so far are exactly `names`
Chain(names) == ops = names

Abs(v) == IF v < 0 THEN -v ELSE v

\* C1: for every A-law byte b, ALawEncode_S(ALawDecode_S(b)) = b, the
\* decoded value being passed on as a 16 bit sample
C1_ALawByteRoundTrip ==
    Chain(<<"ALawDecode_S", "ALawEncode_S">>) => vals[3] = vals[1]

C1_Witness ==
    /\ Chain(<<"ALawDecode_S", "ALawEncode_S">>)
    /\ vals[1] = \h55
    /\ vals[2] = -8
    /\ vals[3] = \h55

\* C2 as stated: for every mu-law byte b, both zero codes 0xFF and 0x7F
\* included, ULawEncode_S(ULawDecode_S(b)) = b
C2_ULawByteRoundTrip_Stated ==
    Chain(<<"ULawDecode_S", "ULawEncode_S">>) => vals[3] = vals[1]

\* C2 amended: ULawEncode_S(ULawDecode_S(b)) = b for every mu-law byte b
\* other than the negative zero code 0x7F, which decodes to 0 and comes back
\* as the positive zero code 0xFF
C2_ULawByteRoundTrip ==
    Chain(<<"ULawDecode_S", "ULawEncode_S">>) =>
        IF vals[1] = \h7f
        THEN vals[2] = 0 /\ vals[3] = \hff
        ELSE vals[3] = vals[1]

C2_Witness ==
    /\ Chain(<<"ULawDecode_S", "ULawEncode_S">>)
    /\ vals[1] = \h7f
    /\ vals[3] = \hff

\* C3 as stated: encode-decode-encode gives the first encoding again, for
\* both laws and every 16 bit sample, -4..-1 included
C3_EncodeIdempotent_Stated ==
    /\ Chain(<<"ALawEncode_S", "ALawDecode_S", "ALawEncode_S">>) => vals[4] = vals[2]
    /\ Chain(<<"ULawEncode_S", "ULawDecode_S", "ULawEncode_S">>) => vals[4] = vals[2]

\* C3 amended: encode-decode-encode gives the first encoding again for
\* A-law on every 16 bit sample and for mu-law on every 16 bit sample outside
\* -4..-1; a sample in -4..-1 is mu-law encoded as 0x7F and comes back as 0xFF
C3_EncodeIdempotent ==
    /\ Chain(<<"ALawEncode_S", "ALawDecode_S", "ALawEncode_S">>) => vals[4] = vals[2]
    /\ Chain(<<"ULawEncode_S", "ULawDecode_S", "ULawEncode_S">>) =>
           IF vals[1] \in -4 .. -1
           THEN vals[2] = \h7f /\ vals[4] = \hff
           ELSE vals[4] = vals[2]

C3_Witness ==
    /\ Chain(<<"ULawEncode_S", "ULawDecode_S", "ULawEncode_S">>)
    /\ vals[1] = -5
    /\ vals[2] = \h7e
    /\ vals[4] = \h7e

\* C4: for every 16 bit sample x, ALawDecode_S(ALawEncode_S(-x-1)) is
\* exactly -ALawDecode_S(ALawEncode_S(x)), and the two codes differ in the
\* sign bit 0x80 only
C4_ALawSignSymmetry ==
    Chain(<<"ALawEncode_S", "ALawDecode_S">>) =>
        LET mirror == ALawEncode_S(ToInt16(-vals[1] - 1))
        IN  /\ ALawDecode_S(mirror) = -vals[3]
            /\ Xor(vals[2], mirror) = \h80

C4_Witness ==
    /\ Chain(<<"ALawEncode_S", "ALawDecode_S">>)
    /\ vals[1] = -16
    /\ vals[3] = -8
    /\ ALawDecode_S(ALawEncode_S(15)) = 8

\* the samples y > x compared with x: its successor and three larger
\* strides (the successor alone gives every pair x <= y of a sign half, the
\* half being an interval)
After(x) == {y \in {x + 1, x + 16, x + 256, x + 4096} : y \in Int16 /\ (x >= 0 \/ y < 0)}

\* C5: within each sign half the reconstructed value never decreases as the
\* sample grows: for x <= y, both non-negative or both negative,
\* Decode(Encode(x)) <= Decode(Encode(y)), for A-law and for mu-law
C5_Monotone ==
    /\ Chain(<<"ALawEncode_S", "ALawDecode_S">>) =>
           \A y \in After(vals[1]) : vals[3] <= ALawDecode_S(ALawEncode_S(y))
    /\ Chain(<<"ULawEncode_S", "ULawDecode_S">>) =>
           \A y \in After(vals[1]) : vals[3] <= ULawDecode_S(ULawEncode_S(y))

C5_Witness ==
    /\ Chain(<<"ULawEncode_S", "ULawDecode_S">>)
    /\ vals[1] = 3
    /\ vals[3] = 0
    /\ ULawDecode_S(ULawEncode_S(4)) = 8

\* the 7 bit magnitude code of a mu-law and of an A-law byte
ULawMagnitude(u) == And(Xor(u, \hff), \h7f)
ALawMagnitude(a) == And(Xor(a, \h55), \h7f)

\* C6: for every A-law byte b, ALawToULaw_S(b) and
\* ULawEncode_S(ALawDecode_S(b)) have the same sign bit and magnitude codes
\* that differ by at most 1
C6_DirectConversion ==
    Chain(<<"ALawToULaw_S">>) =>
        LET viaPcm == ULawEncode_S(ToInt16(ALawDecode_S(vals[1])))
        IN  /\ And(vals[2], \h80) = And(viaPcm, \h80)
            /\ Abs(ULawMagnitude(vals[2]) - ULawMagnitude(viaPcm)) <= 1

C6_Witness ==
    /\ Chain(<<"ALawToULaw_S">>)
    /\ vals[2] /= ULawEncode_S(ToInt16(ALawDecode_S(vals[1])))

\* C7: for every A-law byte b, ULawToALaw_S(ALawToULaw_S(b)) has the sign
\* bit of b and a magnitude code within 1 of that of b
C7_ConversionChain ==
    Chain(<<"ALawToULaw_S", "ULawToALaw_S">>) =>
        /\ And(vals[3], \h80) = And(vals[1], \h80)
        /\ Abs(ALawMagnitude(vals[3]) - ALawMagnitude(vals[1])) <= 1

C7_Witness ==
    /\ Chain(<<"ALawToULaw_S", "ULawToALaw_S">>)
    /\ vals[3] /= vals[1]

\* what each transform is to store and how many elements
ExpectedCount ==
    IF fn \in {"ALawEncode", "ULawEncode"} THEN sizeArg \div 2 ELSE sizeArg

ExpectedElement(v) ==
    CASE fn = "ALawEncode" -> ALawEncode_S(v)
      [] fn = "ALawDecode" -> ALawDecode_S(v)
      [] fn = "ULawEncode" -> ULawEncode_S(v)
      [] fn = "ULawDecode" -> ULawDecode_S(v)
      [] fn = "ALawToULaw" -> ALawToULaw_S(v)
      [] fn = "ULawToALaw" -> ULawToALaw_S(v)

\* C8: the encoders write floor(srcSize/2) elements and the other four
\* srcSize elements; each written element is the scalar transform of the
\* source element at the same index, the rest of the destination is as it
\* was, and the source is as it was
C8_BufferFrame ==
    fn /= "none" =>
        /\ written = ExpectedCount
        /\ Len(dst) = Len(dstArg)
        /\ \A i \in 1 .. Len(dst) :
               dst[i] = IF i <= ExpectedCount THEN ExpectedElement(srcArg[i]) ELSE dstArg[i]
        /\ src = srcArg

C8_Witness ==
    /\ fn = "ULawDecode"
    /\ sizeArg = 2
    /\ srcArg = <<\h00, \hff, \h55>>
    /\ dstArg = <<-21846, -21846, -21846, -21846>>
    /\ dst = <<-32124, 0, -21846, -21846>>

Decoders == {"ALawDecode", "ULawDecode"}

\* C9 as stated: each of the six transforms returns the number of elements
\* it wrote
C9_ReturnValue_Stated ==
    fn /= "none" => ret = written

\* C9 amended: ALawEncode, ULawEncode, ALawToULaw and ULawToALaw return the
\* number of elements written; ALawDecode and ULawDecode return twice that
\* number, the size in bytes of the samples written
C9_ReturnValue ==
    fn /= "none" => ret = IF fn \in Decoders THEN 2 * written ELSE written

C9_Witness ==
    /\ fn = "ALawDecode"
    /\ written = 3
    /\ ret = 6

\* C10: a sample whose biased magnitude exceeds 0x7f00 is encoded as the
\* largest bucket of its sign (0x80, or 0x00 when negative); for every
\* sample the code is a byte whose sign bit is that of the sample and whose
\* segment is the one the clipped biased magnitude lies in
C10_ULawSaturation ==
    Chain(<<"ULawEncode_S">>) =>
        LET x == vals[1]
            m == IF x >= 0 THEN x ELSE Not(x)
            biased == IF m + \h84 > \h7f00 THEN \h7f00 ELSE m + \h84
            seg == And(Shr(Xor(vals[2], \hff), 4), 7)
        IN  /\ m + \h84 > \h7f00 => vals[2] = (IF x >= 0 THEN \h80 ELSE \h00)
            /\ vals[2] \in UInt8
            /\ And(vals[2], \h80) = (IF x >= 0 THEN \h80 ELSE \h00)
            /\ 2 ^ (seg + 7) <= biased
            /\ biased < 2 ^ (seg + 8)

C10_Witness ==
    /\ Chain(<<"ULawEncode_S">>)
    /\ vals[1] = -32768
    /\ vals[2] = \h00

=============================================================================
